---- MODULE Spec2Model ----
(***************************************************************************)
(* Model of the core of discord-exporter-analyzer:                         *)
(*   - parse_and_clean_discord_txt  (src/src/analysis/parse_and_clean.py)  *)
(*   - get_quarterly_insights and summarize_text                           *)
(*                                  (src/src/analysis/ai_insights.py)      *)
(*                                                                         *)
(* Text is modelled as a sequence of tokens.  A token is a short piece of  *)
(* text that the regular expressions of the program never split: a          *)
(* bracket, a colon, a blank, a '!' or '/', a pair of asterisks, a word, a  *)
(* newline, or the digits of a date-time.                                   *)
(***************************************************************************)
EXTENDS Integers, Sequences, FiniteSets, TLC

VARIABLES
    \* parse_and_clean_discord_txt
    lines,           \* the lines of the file, as read by f.readlines()
    idx,             \* number of lines the loop has consumed
    buffer,          \* <<>> (None) or <<record>>: the open message
    last_full_date,  \* <<>> (None) or <<date>>
    rows,            \* the list the DataFrame is built from
    ppc,             \* "loop" | "done"
    \* the response-validation step of get_quarterly_insights
    response,        \* the text summarize_text returned to get_quarterly_insights
    data,            \* <<>> or <<value>>: what is stored under the period's label
    vpc,             \* "start" | "done"
    \* get_quarterly_insights
    df,              \* the Record Store: a sequence of timestamps, one per row
    year,            \* the year argument, 0 for None
    target_quarter,  \* the target_quarter argument, 0 for None
    force_single_period,
    sorted_groups,   \* the periods: a sequence of [key, members]
    gi,              \* number of periods the loop has gone through
    msgs_to_process, \* the rows handed to serialization for the current period
    insights,        \* the returned map, as a sequence of [label, value]
    events,          \* the summarize_text calls and time.sleep(5) of the loop, in order
    gpc,             \* "start" | "period" | "call" | "check" | "done" | "raised",
                     \* or "import" | "ImportError" for test_monthly_insights.py
    \* summarize_text
    api_key,         \* whether load_openrouter_key() finds a key
    model_type,      \* "free" | "pay" | "pinned" (a model identifier)
    models_list,     \* the candidate models, in order
    model_i,         \* position in models_list of the model of the outer loop
    attempt,         \* value of the inner loop variable
    models_attempted,
    content,         \* the local variable content
    calls,           \* the model of each network call made so far, in order
    last_outcome,    \* what the most recent network call did
    sleeps,          \* number of time.sleep(5) executed
    slept_after_call,\* whether a sleep has taken place since the last call
    returned,        \* <<>> or <<value returned>>
    spc,             \* "start" | "model" | "attempt" | "after" | "done" | "raised"
    \* the web application (src/src/web/app.py)
    JOBS,            \* the jobs created, in order: a sequence of [file_name, status]
    background_tasks,\* the file_path of each run_analysis task added, in order
    replies          \* the "status" of the reply to each /api/analyze request, in order

parseVars == <<lines, idx, buffer, last_full_date, rows, ppc>>
validateVars == <<response, data, vpc>>
insightVars == <<df, year, target_quarter, force_single_period, sorted_groups, gi,
                 msgs_to_process, insights, events, gpc>>
summarizeVars == <<api_key, model_type, models_list, model_i, attempt, models_attempted, content,
                   calls, last_outcome, sleeps, slept_after_call, returned, spc>>

webVars == <<JOBS, background_tasks, replies>>

vars == <<parseVars, validateVars, insightVars, summarizeVars, webVars>>

-----------------------------------------------------------------------------
(* Generic helpers                                                         *)

Min(S) == CHOOSE x \in S : \A y \in S : x <= y
Max(S) == CHOOSE x \in S : \A y \in S : x >= y

Range(s) == {s[i] : i \in 1..Len(s)}

\* The part of s from index i to its end.
From(s, i) == SubSeq(s, i, Len(s))

\* str.strip(): removes leading and trailing whitespace (blanks and newlines).
Whitespace == {" ", "\n"}

RECURSIVE lstrip(_)
lstrip(s) == IF s # <<>> /\ Head(s) \in Whitespace THEN lstrip(Tail(s)) ELSE s

RECURSIVE rstrip(_)
rstrip(s) ==
    IF s # <<>> /\ s[Len(s)] \in Whitespace
    THEN rstrip(SubSeq(s, 1, Len(s) - 1))
    ELSE s

strip(s) == rstrip(lstrip(s))

-----------------------------------------------------------------------------
(* Date-time texts.  Each token below is a text the regular expressions    *)
(* accept as \d{2}/\d{2}/\d{4} \d{2}:\d{2} or as \d{2}:\d{2}; its digits  *)
(* are the numbers strptime reads.                                         *)

FullTexts == {"01/01/2025 10:00", "02/04/2025 11:30", "31/02/2025 10:00"}
ShortTexts == {"10:10", "25:10"}

\* <<day, month, year, hour, minute>> of a full text
FullDigits(t) ==
    CASE t = "01/01/2025 10:00" -> <<1, 1, 2025, 10, 0>>
      [] t = "02/04/2025 11:30" -> <<2, 4, 2025, 11, 30>>
      [] t = "31/02/2025 10:00" -> <<31, 2, 2025, 10, 0>>

\* <<hour, minute>> of a short text
ShortDigits(t) ==
    CASE t = "10:10" -> <<10, 10>>
      [] t = "25:10" -> <<25, 10>>

IsLeap(y) == (y % 4 = 0 /\ y % 100 # 0) \/ y % 400 = 0

DaysIn(m, y) ==
    IF m = 2 THEN (IF IsLeap(y) THEN 29 ELSE 28)
    ELSE IF m \in {4, 6, 9, 11} THEN 30 ELSE 31

\* datetime.strptime raises ValueError unless the fields name a real instant.
ValidDate(y, m, d) == y >= 1 /\ m \in 1..12 /\ d >= 1 /\ d <= DaysIn(m, y)
ValidTime(h, mi) == h \in 0..23 /\ mi \in 0..59

\* A timestamp value: None, or a datetime.
NoTs == [null |-> TRUE, year |-> 0, month |-> 0, day |-> 0, hour |-> 0, minute |-> 0]
Ts(y, m, d, h, mi) ==
    [null |-> FALSE, year |-> y, month |-> m, day |-> d, hour |-> h, minute |-> mi]

\* datetime.strptime(ts_str, "%d/%m/%Y %H:%M"): <<ok, ts>>
strptime_full(t) ==
    LET g == FullDigits(t) IN
    IF ValidDate(g[3], g[2], g[1]) /\ ValidTime(g[4], g[5])
    THEN [ok |-> TRUE, ts |-> Ts(g[3], g[2], g[1], g[4], g[5])]
    ELSE [ok |-> FALSE, ts |-> NoTs]

\* ts.date(): <<year, month, day>>
DateOf(ts) == <<ts.year, ts.month, ts.day>>

\* datetime.strptime(f"{last_full_date} {time_str}", "%Y-%m-%d %H:%M")
strptime_short(date, t) ==
    LET g == ShortDigits(t) IN
    IF ValidDate(date[1], date[2], date[3]) /\ ValidTime(g[1], g[2])
    THEN [ok |-> TRUE, ts |-> Ts(date[1], date[2], date[3], g[1], g[2])]
    ELSE [ok |-> FALSE, ts |-> NoTs]

-----------------------------------------------------------------------------
(* The regular expressions of parse_and_clean.py                           *)

NoMatch == [ok |-> FALSE, ts_str |-> "", user |-> <<>>, message |-> <<>>]

\* \s*(.+?):\s*(.*)$ applied to the text r that follows the closing bracket.
\* \s* is greedy and gives blanks back one at a time; (.+?) is lazy and takes
\* at least one character up to the first colon that follows.
RECURSIVE LeadingBlanks(_)
LeadingBlanks(r) ==
    IF r # <<>> /\ Head(r) \in Whitespace THEN 1 + LeadingBlanks(Tail(r)) ELSE 0

ColonsFrom(r, i) == {c \in i..Len(r) : r[c] = ":"}

RECURSIVE UserAndMessage(_, _, _)
UserAndMessage(r, k, ts_str) ==
    \* k: the number of blanks \s* currently takes
    IF ColonsFrom(r, k + 2) # {}
    THEN LET c == Min(ColonsFrom(r, k + 2)) IN
         [ok |-> TRUE, ts_str |-> ts_str,
          user |-> SubSeq(r, k + 1, c - 1),
          message |-> lstrip(From(r, c + 1))]
    ELSE IF k > 0 THEN UserAndMessage(r, k - 1, ts_str) ELSE NoMatch

Bracketed(line, texts) ==
    /\ Len(line) >= 3
    /\ line[1] = "["
    /\ line[2] \in texts
    /\ line[3] = "]"

\* MESSAGE_REGEX_FULL.match(line)
MESSAGE_REGEX_FULL(line) ==
    IF Bracketed(line, FullTexts)
    THEN UserAndMessage(From(line, 4), LeadingBlanks(From(line, 4)), line[2])
    ELSE NoMatch

\* MESSAGE_REGEX_SHORT.match(line)
MESSAGE_REGEX_SHORT(line) ==
    IF Bracketed(line, ShortTexts)
    THEN UserAndMessage(From(line, 4), LeadingBlanks(From(line, 4)), line[2])
    ELSE NoMatch

ActionVerbs == {"joined"}

\* '.' matches any character but a newline.
NoNewline(m, i, j) == \A k \in i..j : m[k] # "\n"

\* '$' matches at the end of the text, or before a newline that ends the text.
AtEnd(m, j) == j = Len(m) \/ (j = Len(m) - 1 /\ m[Len(m)] = "\n")

\* ^\*\*.+ (added|removed|...).+\*\*$
SystemPatternVerb(m) ==
    /\ Len(m) >= 1
    /\ m[1] = "**"
    /\ \E v \in 4..Len(m), e \in 1..Len(m) :
          /\ m[v] \in ActionVerbs
          /\ m[v - 1] = " "
          /\ v - 2 >= 2
          /\ e >= v + 2
          /\ m[e] = "**"
          /\ AtEnd(m, e)
          /\ NoNewline(m, 2, e - 1)

\* ^\*\*.+\*\*$
SystemPatternBold(m) ==
    /\ Len(m) >= 1
    /\ m[1] = "**"
    /\ \E e \in 3..Len(m) :
          /\ m[e] = "**"
          /\ AtEnd(m, e)
          /\ NoNewline(m, 2, e - 1)

is_system_message(m) == SystemPatternVerb(m) \/ SystemPatternBold(m)

BOT_COMMAND_PREFIXES == {"!", "/"}

is_bot_command(m) ==
    LET s == strip(m) IN s # <<>> /\ Head(s) \in BOT_COMMAND_PREFIXES

\* The test applied to a buffered message before it is appended to rows.
Accepted(message) == ~is_system_message(message) /\ ~is_bot_command(message)

-----------------------------------------------------------------------------
(* parse_and_clean_discord_txt                                             *)

MaxLines == 3

\* The lines a file is made of.  "Alice" and "Bob" are user names, "hi",
\* "more" and "bye" are words of a message.
FullLine(t, body) == <<"[", t, "]", " ", "Alice", ":", " ">> \o body
ShortLine(t, body) == <<"[", t, "]", " ", "Bob", ":", " ">> \o body

RawLines ==
    { FullLine("01/01/2025 10:00", <<"hi">>),
      FullLine("02/04/2025 11:30", <<"hi">>),
      FullLine("31/02/2025 10:00", <<"hi">>),
      FullLine("01/01/2025 10:00", <<"/", "hi">>),
      FullLine("01/01/2025 10:00", <<"**", "Bob", " ", "joined", " ", "us", "**">>),
      FullLine("01/01/2025 10:00", <<"**", "hi">>),
      FullLine("01/01/2025 10:00", <<>>),
      ShortLine("10:10", <<"hi">>),
      ShortLine("25:10", <<"hi">>),
      <<"[", "hi", "]", " ", "Alice", ":", " ", "hi">>,
      <<" ", "more">>,
      <<"bye", "**">>,
      <<"!", "hi">>,
      <<" ">> }

Files == UNION {[1..n -> RawLines] : n \in 0..MaxLines}

Record(ts, user, message) == [timestamp |-> ts, user |-> user, message |-> message]

\* Flush as it would be if a record equal to a stored one were skipped.
FlushDedup(rs, buf) ==
    IF buf # <<>> /\ Accepted(buf[1].message) /\ buf[1] \notin Range(rs)
    THEN Append(rs, buf[1])
    ELSE rs

\* "if buffer: if not is_system_message(...) and not is_bot_command(...):
\*  rows.append(buffer)"
Flush(rs, buf) ==
    IF buf # <<>> /\ Accepted(buf[1].message) THEN Append(rs, buf[1]) ELSE rs

\* The line the loop body works on: line = line.strip()
CurrentLine == strip(lines[idx + 1])

InLoop == ppc = "loop" /\ idx < Len(lines)

ParseIdle ==
    /\ lines = <<>>
    /\ idx = 0
    /\ buffer = <<>>
    /\ last_full_date = <<>>
    /\ rows = <<>>
    /\ ppc = "idle"

ValidateIdle ==
    /\ response = <<>>
    /\ data = <<>>
    /\ vpc = "idle"

InsightsIdle ==
    /\ df = <<>>
    /\ year = 0
    /\ target_quarter = 0
    /\ force_single_period = FALSE
    /\ sorted_groups = <<>>
    /\ gi = 0
    /\ msgs_to_process = <<>>
    /\ insights = <<>>
    /\ events = <<>>
    /\ gpc = "idle"

\* The local variable content: not yet assigned, None, or a text.
Unset == [state |-> "unset", text |-> <<>>]
None == [state |-> "None", text |-> <<>>]
Text(t) == [state |-> "str", text |-> t]

\* What a network call did: the content it returned, or the markers found in
\* the text of the exception it raised.
NoCall == [kind |-> "no call", content |-> Unset, markers |-> {}]
Returned(c) == [kind |-> "returned", content |-> c, markers |-> {}]
Raised(m) == [kind |-> "raised", content |-> Unset, markers |-> m]

WebIdle ==
    /\ JOBS = <<>>
    /\ background_tasks = <<>>
    /\ replies = <<>>

SummarizeIdle ==
    /\ api_key = FALSE
    /\ model_type = "free"
    /\ models_list = <<>>
    /\ model_i = 0
    /\ attempt = 0
    /\ models_attempted = 0
    /\ content = Unset
    /\ calls = <<>>
    /\ last_outcome = NoCall
    /\ sleeps = 0
    /\ slept_after_call = FALSE
    /\ returned = <<>>
    /\ spc = "idle"

InitParse ==
    /\ WebIdle
    /\ ValidateIdle
    /\ InsightsIdle
    /\ SummarizeIdle
    /\ lines \in Files
    /\ idx = 0
    /\ buffer = <<>>
    /\ last_full_date = <<>>
    /\ rows = <<>>
    /\ ppc = "loop"

\* BlankLine as it would be if a blank line closed the open record.
BlankLineEndsRecord ==
    /\ InLoop
    /\ CurrentLine = <<>>
    /\ rows' = Flush(rows, buffer)
    /\ buffer' = <<>>
    /\ idx' = idx + 1
    /\ UNCHANGED <<lines, last_full_date, ppc, validateVars, insightVars, summarizeVars, webVars>>

\* "if not line: continue"
BlankLine ==
    /\ InLoop
    /\ CurrentLine = <<>>
    /\ idx' = idx + 1
    /\ UNCHANGED <<lines, buffer, last_full_date, rows, ppc, validateVars, insightVars, summarizeVars, webVars>>

\* FullStart as it would be if a failed strptime also cleared last_full_date.
FullStartClearsDate ==
    /\ InLoop
    /\ CurrentLine # <<>>
    /\ LET m == MESSAGE_REGEX_FULL(CurrentLine)
           p == strptime_full(m.ts_str)
       IN /\ m.ok
          /\ rows' = Flush(rows, buffer)
          /\ last_full_date' = IF p.ok THEN <<DateOf(p.ts)>> ELSE <<>>
          /\ buffer' = <<Record(p.ts, m.user, m.message)>>
    /\ idx' = idx + 1
    /\ UNCHANGED <<lines, ppc, validateVars, insightVars, summarizeVars, webVars>>

\* FullStart as it would be if a line whose date-time fails to parse opened
\* no record.
FullStartDropsUnparsed ==
    /\ InLoop
    /\ CurrentLine # <<>>
    /\ LET m == MESSAGE_REGEX_FULL(CurrentLine)
           p == strptime_full(m.ts_str)
       IN /\ m.ok
          /\ rows' = Flush(rows, buffer)
          /\ last_full_date' = IF p.ok THEN <<DateOf(p.ts)>> ELSE last_full_date
          /\ buffer' = IF p.ok THEN <<Record(p.ts, m.user, m.message)>> ELSE <<>>
    /\ idx' = idx + 1
    /\ UNCHANGED <<lines, ppc, validateVars, insightVars, summarizeVars, webVars>>

\* "if m_full:"
FullStart ==
    /\ InLoop
    /\ CurrentLine # <<>>
    /\ LET m == MESSAGE_REGEX_FULL(CurrentLine)
           p == strptime_full(m.ts_str)
       IN /\ m.ok
          /\ rows' = Flush(rows, buffer)
          /\ last_full_date' = IF p.ok THEN <<DateOf(p.ts)>> ELSE last_full_date
          /\ buffer' = <<Record(p.ts, m.user, m.message)>>
    /\ idx' = idx + 1
    /\ UNCHANGED <<lines, ppc, validateVars, insightVars, summarizeVars, webVars>>

\* The timestamp a short line gets: "if last_full_date: try ... except ... else"
ShortTimestamp(lfd, time_str) ==
    IF lfd # <<>> THEN strptime_short(lfd[1], time_str).ts ELSE NoTs

\* "elif m_short:"
ShortStart ==
    /\ InLoop
    /\ CurrentLine # <<>>
    /\ ~MESSAGE_REGEX_FULL(CurrentLine).ok
    /\ LET m == MESSAGE_REGEX_SHORT(CurrentLine) IN
          /\ m.ok
          /\ rows' = Flush(rows, buffer)
          /\ buffer' = <<Record(ShortTimestamp(last_full_date, m.ts_str),
                                m.user, m.message)>>
    /\ idx' = idx + 1
    /\ UNCHANGED <<lines, last_full_date, ppc, validateVars, insightVars, summarizeVars, webVars>>

\* Extend as it would be if the line were appended without the newline.
ExtendNoNewline(buf, line) ==
    IF buf # <<>>
    THEN <<[buf[1] EXCEPT !.message = @ \o line]>>
    ELSE buf

\* Extend as it would be if a line met with no open record opened one.
ExtendOrOpen(buf, line) ==
    IF buf # <<>>
    THEN <<[buf[1] EXCEPT !.message = @ \o <<"\n">> \o line]>>
    ELSE <<Record(NoTs, <<>>, line)>>

\* "buffer['message'] += '\n' + line"
Extend(buf, line) ==
    IF buf # <<>>
    THEN <<[buf[1] EXCEPT !.message = @ \o <<"\n">> \o line]>>
    ELSE buf

\* "else:" a line that starts no message
Continuation ==
    /\ InLoop
    /\ CurrentLine # <<>>
    /\ ~MESSAGE_REGEX_FULL(CurrentLine).ok
    /\ ~MESSAGE_REGEX_SHORT(CurrentLine).ok
    /\ buffer' = Extend(buffer, CurrentLine)
    /\ idx' = idx + 1
    /\ UNCHANGED <<lines, last_full_date, rows, ppc, validateVars, insightVars, summarizeVars, webVars>>

\* After the loop: "Save last buffered message", then the DataFrame is built.
EndOfInput ==
    /\ ppc = "loop"
    /\ idx = Len(lines)
    /\ rows' = Flush(rows, buffer)
    /\ ppc' = "done"
    /\ UNCHANGED <<lines, idx, buffer, last_full_date, validateVars, insightVars, summarizeVars, webVars>>

NextParse ==
    \/ BlankLine
    \/ FullStart
    \/ ShortStart
    \/ Continuation
    \/ EndOfInput

SpecParse == InitParse /\ [][NextParse]_vars

-----------------------------------------------------------------------------
(* The response-validation step of get_quarterly_insights (lines 319-341). *)
(* A response is a sequence of tokens: a code fence, the word json, a      *)
(* brace, the text of a well-formed member list, a JSON number, a word of  *)
(* prose, a newline.                                                       *)

MaxResponse == 4

ResponseTokens == {"<fence>", "json", "{", "}", "members", "42", "Sorry", "\n"}

Responses == UNION {[1..n -> ResponseTokens] : n \in 0..MaxResponse}

\* s.replace(<fence>json, ""), <fence> being the three-backquote marker
RECURSIVE RemoveJsonFences(_)
RemoveJsonFences(s) ==
    IF s = <<>> THEN <<>>
    ELSE IF Len(s) >= 2 /\ s[1] = "<fence>" /\ s[2] = "json"
         THEN RemoveJsonFences(From(s, 3))
         ELSE <<Head(s)>> \o RemoveJsonFences(Tail(s))

\* s.replace(<fence>, "")
RemoveFences(s) == SelectSeq(s, LAMBDA t : t # "<fence>")

\* response.replace(<fence>json, "").replace(<fence>, "").strip()
StripMarkdown(s) == strip(RemoveFences(RemoveJsonFences(s)))

\* ExtractObject as it would be if the candidate were not extracted at all.
ExtractNothing(s) == s

\* re.search(r'(\{.*\})', clean_json, re.DOTALL): from the first '{' to the
\* last '}' that follows it; the text is left as it is when there is none.
ExtractObject(s) ==
    LET opens == {i \in 1..Len(s) : s[i] = "{"} IN
    IF opens = {} THEN s
    ELSE LET first == Min(opens)
             closes == {j \in (first + 1)..Len(s) : s[j] = "}"}
         IN IF closes = {} THEN s
            ELSE SubSeq(s, first, Max(closes))

\* The values json.loads can give, and the fixed default record.
JsonObject(members) == [type |-> "dict", content |-> members]
JsonNumber == [type |-> "number", content |-> <<"42">>]
DefaultRecord == [type |-> "dict", content |-> <<"summary: []", "sentiment: Unknown",
                                                 "funniest_quotes: []",
                                                 "impactful_quote: {text: '', author: ''}">>]

\* json.loads(text): whitespace around the value and inside the braces is
\* skipped; anything else raises JSONDecodeError (ok = FALSE).
json_loads(text) ==
    LET t == SelectSeq(text, LAMBDA x : x \notin Whitespace) IN
    IF t = <<"{", "}">> THEN [ok |-> TRUE, value |-> JsonObject(<<>>)]
    ELSE IF t = <<"{", "members", "}">> THEN [ok |-> TRUE, value |-> JsonObject(<<"members">>)]
    ELSE IF t = <<"42">> THEN [ok |-> TRUE, value |-> JsonNumber]
    ELSE [ok |-> FALSE, value |-> DefaultRecord]

\* The text handed to json.loads.
Candidate(resp) == ExtractObject(StripMarkdown(resp))

\* Validate as it would be if the text that fails to parse were stored as is.
ValidateOrKeepText(resp) ==
    LET parsed == json_loads(Candidate(resp)) IN
    IF parsed.ok THEN parsed.value ELSE [type |-> "str", content |-> resp]

\* What is stored under the period's label: "try: data = json.loads(...)
\* except json.JSONDecodeError: <the default record>"
Validate(resp) ==
    LET parsed == json_loads(Candidate(resp)) IN
    IF parsed.ok THEN parsed.value ELSE DefaultRecord

InitValidate ==
    /\ WebIdle
    /\ ParseIdle
    /\ InsightsIdle
    /\ SummarizeIdle
    /\ response \in Responses
    /\ data = <<>>
    /\ vpc = "start"

\* "data = json.loads(clean_json); insights[quarter_label] = data"
StoreParsed ==
    /\ vpc = "start"
    /\ json_loads(Candidate(response)).ok
    /\ data' = <<Validate(response)>>
    /\ vpc' = "done"
    /\ UNCHANGED <<response, parseVars, insightVars, summarizeVars, webVars>>

\* "except json.JSONDecodeError: insights[quarter_label] = {...}"
StoreDefault ==
    /\ vpc = "start"
    /\ ~json_loads(Candidate(response)).ok
    /\ data' = <<Validate(response)>>
    /\ vpc' = "done"
    /\ UNCHANGED <<response, parseVars, insightVars, summarizeVars, webVars>>

NextValidate == StoreParsed \/ StoreDefault

SpecValidate == InitValidate /\ [][NextValidate]_vars

-----------------------------------------------------------------------------
(* get_quarterly_insights: period segmentation, sampling and the loop over *)
(* the periods.  A row of the DataFrame is known by its position in df;    *)
(* df[i] is its timestamp (NoTs for None, which pandas holds as NaT).      *)

MaxRows == 3

\* limit_msgs is 800 in the source; the model scales it down.
limit_msgs == 2

StoreTimestamps ==
    { NoTs,
      Ts(2024, 2, 10, 9, 0),
      Ts(2025, 1, 1, 10, 0),
      Ts(2025, 3, 1, 8, 0),
      Ts(2025, 5, 1, 8, 0) }

Stores == UNION {[1..n -> StoreTimestamps] : n \in 0..MaxRows}

\* df['timestamp'].dt.year and .dt.quarter (both NaN on NaT)
YearOf(ts) == ts.year
QuarterOf(ts) == ((ts.month - 1) \div 3) + 1

\* The rows of a frame, as the sequence of their positions in df.
AllRows == [i \in 1..Len(df) |-> i]

\* "if year and not force_single_period: df[df['timestamp'].dt.year == year]
\*  else: df.copy()"
YearFiltered ==
    IF year # 0 /\ ~force_single_period
    THEN SelectSeq(AllRows, LAMBDA i : ~df[i].null /\ YearOf(df[i]) = year)
    ELSE AllRows

\* "multi_year = start_year != end_year": min and max skip NaN, and are NaN
\* themselves when every year is NaN; NaN != NaN is True.
MultiYear(target) ==
    LET years == {YearOf(df[target[k]]) : k \in {k \in 1..Len(target) : ~df[target[k]].null}}
    IN IF years = {} THEN TRUE ELSE Min(years) # Max(years)

\* QuarterFiltered as it would be without lines 250-251.
QuarterNotFiltered(target) == target

\* "if target_quarter: df_target[df_target['quarter'] == target_quarter]"
QuarterFiltered(target) ==
    IF target_quarter # 0
    THEN SelectSeq(target, LAMBDA i : ~df[i].null /\ QuarterOf(df[i]) = target_quarter)
    ELSE target

\* The group keys of groupby(['year', 'quarter']): rows with a NaN key are dropped.
GroupKeys(target) ==
    {<<YearOf(df[target[k]]), QuarterOf(df[target[k]])>> :
        k \in {k \in 1..Len(target) : ~df[target[k]].null}}

\* GroupMembers as it would be if rows were grouped on the quarter alone.
GroupMembersByQuarterOnly(target, key) ==
    SelectSeq(target, LAMBDA i : ~df[i].null /\ QuarterOf(df[i]) = key[2])

\* The rows of one group, in the order they have in the frame.
GroupMembers(target, key) ==
    SelectSeq(target, LAMBDA i :
        ~df[i].null /\ YearOf(df[i]) = key[1] /\ QuarterOf(df[i]) = key[2])

\* KeyLess as it would be with sorted(..., reverse=True).
KeyMore(a, b) == a[1] > b[1] \/ (a[1] = b[1] /\ a[2] > b[2])

KeyLess(a, b) == a[1] < b[1] \/ (a[1] = b[1] /\ a[2] < b[2])

\* sorted(groups, key=lambda x: (x[0][0], x[0][1]))
RECURSIVE SortedKeys(_)
SortedKeys(K) ==
    IF K = {} THEN <<>>
    ELSE LET least == CHOOSE a \in K : \A b \in K \ {a} : KeyLess(a, b)
         IN <<least>> \o SortedKeys(K \ {least})

Group(key, members) == [key |-> key, members |-> members]

\* "Define processing groups"
ProcessingGroups(target) ==
    IF force_single_period
    THEN <<Group(<<0, 0>>, target)>>
    ELSE LET t == QuarterFiltered(target)
             keys == SortedKeys(GroupKeys(t))
         IN [k \in 1..Len(keys) |-> Group(keys[k], GroupMembers(t, keys[k]))]

\* The label of a period (lines 263-268).
Label(kind, y, q) == [kind |-> kind, y |-> y, q |-> q]

\* QuarterLabel as it would be if the year were never put in the label.
QuarterLabelWithoutYear(key) ==
    IF force_single_period THEN Label("single period", 0, 0)
    ELSE Label("quarter", 0, key[2])

QuarterLabel(key) ==
    IF force_single_period THEN Label("single period", 0, 0)
    ELSE IF MultiYear(YearFiltered) \/ year = 0 THEN Label("year and quarter", key[1], key[2])
    ELSE Label("quarter", 0, key[2])

\* Order of two timestamps under sort_values('timestamp'): NaT sorts last.
TsKey(ts) == (((ts.year * 12 + ts.month) * 31 + ts.day) * 24 + ts.hour) * 60 + ts.minute
TsLeq(a, b) == b.null \/ (~a.null /\ TsKey(a) <= TsKey(b))

IsSortedByTimestamp(s) ==
    \A i, j \in 1..Len(s) : i < j => TsLeq(df[s[i]], df[s[j]])

\* quarter_data.sample(n): n distinct rows of the group, in any order.
Samples(members, n) ==
    {s \in [1..n -> Range(members)] : \A i, j \in 1..n : i # j => s[i] # s[j]}

\* SampledAndSorted as it would be if the sample were not sorted again.
SampledUnsorted(members) == Samples(members, limit_msgs)

\* quarter_data.sample(limit_msgs).sort_values('timestamp'): the sort is not
\* stable, so rows with equal timestamps come in any order.
SampledAndSorted(members) ==
    {s \in Samples(members, limit_msgs) : IsSortedByTimestamp(s)}

\* ExceedsLimit as it would be if the comparison were >=.
ReachesLimit(members) == Len(members) >= limit_msgs

\* "if len(quarter_data) > limit_msgs"
ExceedsLimit(members) == Len(members) > limit_msgs

\* What summarize_text can return to the loop: a model's text, or one of
\* its three signals.
NoKeySignal == <<"AI Analysis", "Unavailable", ": No API Key found.">>
DailyLimitSignal == <<"AI Analysis", "Unavailable", ": Daily limit reached.">>
AllFailedSignal == <<"Failed to get AI response from all available models.">>

SummarizeResults ==
    { <<"{", "members", "}">>, <<"Sorry">>, <<"Data", "Unavailable">>,
      NoKeySignal, DailyLimitSignal, AllFailedSignal }

\* HasUnavailable as it would be if the test looked for the quota signal only.
HasDailyLimitText(resp) == ": Daily limit reached." \in Range(resp)

\* "Unavailable" in response
HasUnavailable(resp) == "Unavailable" \in Range(resp)

\* insights[quarter_label] = value
DictSet(d, label, value) ==
    IF \E k \in 1..Len(d) : d[k].label = label
    THEN [k \in 1..Len(d) |-> IF d[k].label = label
                              THEN [label |-> label, value |-> value]
                              ELSE d[k]]
    ELSE Append(d, [label |-> label, value |-> value])

CurrentGroup == sorted_groups[gi + 1]

\* What the loop does that takes time: a call of summarize_text for the
\* period at a position of sorted_groups, and "time.sleep(5)".
SummarizeCall(k) == [op |-> "summarize_text", period |-> k]
Sleep == [op |-> "sleep", period |-> 0]

\* Paced as it would be without line 317.
NotPaced(ev) == ev

\* "time.sleep(5) # Modest buffer"
Paced(ev) == Append(ev, Sleep)

InitInsights ==
    /\ WebIdle
    /\ ParseIdle
    /\ SummarizeIdle
    /\ df \in Stores
    /\ year \in {0, 2025}
    /\ target_quarter \in {0, 1}
    /\ force_single_period \in BOOLEAN
    /\ sorted_groups = <<>>
    /\ gi = 0
    /\ msgs_to_process = <<>>
    /\ insights = <<>>
    /\ events = <<>>
    /\ response = <<>>
    /\ data = <<>>
    /\ vpc = "idle"
    /\ gpc \in {"start", "import"}

\* The names ai_insights.py defines at its top level.
ai_insights_names ==
    { "logger", "load_free_models", "FREE_MODELS", "load_pay_models", "PAY_MODELS",
      "load_openrouter_key", "summarize_text", "load_prompt_template",
      "get_quarterly_insights", "generate_yearly_summary" }

\* test_monthly_insights.py, line 11: "from ai_insights import
\* get_monthly_insights"; the module has no such name and the import raises
\* ImportError before the script calls anything.
ImportMonthly ==
    /\ gpc = "import"
    /\ "get_monthly_insights" \notin ai_insights_names
    /\ gpc' = "ImportError"
    /\ UNCHANGED <<df, year, target_quarter, force_single_period, sorted_groups, gi,
                   msgs_to_process, insights, events, validateVars, parseVars,
                   summarizeVars, webVars>>

\* "if df_target.empty: return {}" (lines 217-226)
ReturnEmpty ==
    /\ gpc = "start"
    /\ YearFiltered = <<>>
    /\ gpc' = "done"
    /\ UNCHANGED <<df, year, target_quarter, force_single_period, sorted_groups, gi,
                   msgs_to_process, insights, events, validateVars, parseVars, summarizeVars, webVars>>

\* Lines 235-257: the periods are fixed before the loop starts.
Segment ==
    /\ gpc = "start"
    /\ YearFiltered # <<>>
    /\ sorted_groups' = ProcessingGroups(YearFiltered)
    /\ gpc' = "period"
    /\ UNCHANGED <<df, year, target_quarter, force_single_period, gi,
                   msgs_to_process, insights, events, validateVars, parseVars, summarizeVars, webVars>>

\* "msgs_to_process = quarter_data" (at most limit_msgs rows)
PassThrough ==
    /\ gpc = "period"
    /\ gi < Len(sorted_groups)
    /\ ~ExceedsLimit(CurrentGroup.members)
    /\ msgs_to_process' = CurrentGroup.members
    /\ gpc' = "call"
    /\ UNCHANGED <<df, year, target_quarter, force_single_period, sorted_groups, gi,
                   insights, events, validateVars, parseVars, summarizeVars, webVars>>

\* "msgs_to_process = quarter_data.sample(limit_msgs).sort_values('timestamp')"
SampleDown ==
    /\ gpc = "period"
    /\ gi < Len(sorted_groups)
    /\ ExceedsLimit(CurrentGroup.members)
    /\ msgs_to_process' \in SampledAndSorted(CurrentGroup.members)
    /\ gpc' = "call"
    /\ UNCHANGED <<df, year, target_quarter, force_single_period, sorted_groups, gi,
                   insights, events, validateVars, parseVars, summarizeVars, webVars>>

\* "response = summarize_text(text_blob, prompt, model_type=model_type)"
Summarize ==
    /\ gpc = "call"
    /\ response' \in SummarizeResults
    /\ events' = Append(events, SummarizeCall(gi + 1))
    /\ gpc' = "check"
    /\ UNCHANGED <<df, year, target_quarter, force_single_period, sorted_groups, gi,
                   msgs_to_process, insights, data, vpc, parseVars, summarizeVars, webVars>>

\* summarize_text raises (the TypeError of its line 154): nothing catches it.
SummarizeRaises ==
    /\ gpc = "call"
    /\ events' = Append(events, SummarizeCall(gi + 1))
    /\ gpc' = "raised"
    /\ UNCHANGED <<df, year, target_quarter, force_single_period, sorted_groups, gi,
                   msgs_to_process, insights, validateVars, parseVars, summarizeVars, webVars>>

\* "if 'Unavailable' in response: break"
StopOnUnavailable ==
    /\ gpc = "check"
    /\ HasUnavailable(response)
    /\ gpc' = "done"
    /\ UNCHANGED <<df, year, target_quarter, force_single_period, sorted_groups, gi,
                   msgs_to_process, insights, events, validateVars, parseVars, summarizeVars, webVars>>

\* time.sleep(5), then lines 319-341: the validated value is stored under
\* the period's label and the loop goes to the next period.
StoreInsight ==
    /\ gpc = "check"
    /\ ~HasUnavailable(response)
    /\ events' = Paced(events)
    /\ data' = <<Validate(response)>>
    /\ insights' = DictSet(insights, QuarterLabel(CurrentGroup.key), Validate(response))
    /\ gi' = gi + 1
    /\ gpc' = "period"
    /\ UNCHANGED <<df, year, target_quarter, force_single_period, sorted_groups,
                   msgs_to_process, response, vpc, parseVars, summarizeVars, webVars>>

\* The loop has gone through every period: "return insights"
ReturnInsights ==
    /\ gpc = "period"
    /\ gi = Len(sorted_groups)
    /\ gpc' = "done"
    /\ UNCHANGED <<df, year, target_quarter, force_single_period, sorted_groups, gi,
                   msgs_to_process, insights, events, validateVars, parseVars, summarizeVars, webVars>>

NextInsights ==
    \/ ImportMonthly
    \/ ReturnEmpty
    \/ Segment
    \/ PassThrough
    \/ SampleDown
    \/ Summarize
    \/ SummarizeRaises
    \/ StopOnUnavailable
    \/ StoreInsight
    \/ ReturnInsights

SpecInsights == InitInsights /\ [][NextInsights]_vars

-----------------------------------------------------------------------------
(* summarize_text: the loop over the candidate models.                     *)

MaxModels == 6

max_retries == 2
max_model_attempts == 5

\* FREE_MODELS and PAY_MODELS are read from JSON files: a list of 0..MaxModels models,
\* each known by its position in the list.
ModelLists == {[i \in 1..n |-> i] : n \in 0..MaxModels}

\* "pay": PAY_MODELS; "free": FREE_MODELS; else [model_type] (lines 102-108)
ModelTypes == {"pay", "free", "pinned"}
ModelsFor(mt) == IF mt \in {"pay", "free"} THEN ModelLists ELSE {<<1>>}

\* The texts a model can answer with; the last one is blank but not empty.
ModelTexts == { <<"{", "members", "}">>, <<"\n", "Sorry", "\n">>, <<" ">> }

\* The markers the code looks for in str(e).
ErrorMarkers == {"free-models-per-day", "429"}

\* ErrorClass as it would be if the rate-limit test came first.
ErrorClassRateFirst(markers) ==
    IF "429" \in markers THEN "rate limit"
    ELSE IF "free-models-per-day" \in markers THEN "daily limit"
    ELSE "other"

\* ErrorClass as it would be if every error but the quota one were retried.
ErrorClassNoOther(markers) ==
    IF "free-models-per-day" \in markers THEN "daily limit" ELSE "rate limit"

\* The branch of the except clause an exception takes (lines 143-151).
ErrorClass(markers) ==
    IF "free-models-per-day" \in markers THEN "daily limit"
    ELSE IF "429" \in markers THEN "rate limit"
    ELSE "other"

InitSummarize ==
    /\ WebIdle
    /\ ParseIdle
    /\ ValidateIdle
    /\ InsightsIdle
    /\ api_key \in BOOLEAN
    /\ model_type \in ModelTypes
    /\ models_list \in ModelsFor(model_type)
    /\ model_i = 0
    /\ attempt = 0
    /\ models_attempted = 0
    /\ content = Unset
    /\ calls = <<>>
    /\ last_outcome = NoCall
    /\ sleeps = 0
    /\ slept_after_call = FALSE
    /\ returned = <<>>
    /\ spc = "start"

others == <<parseVars, validateVars, insightVars, webVars>>

\* "if not api_key: return 'AI Analysis Unavailable: No API Key found.'"
NoCredential ==
    /\ spc = "start"
    /\ ~api_key
    /\ returned' = <<NoKeySignal>>
    /\ spc' = "done"
    /\ UNCHANGED <<api_key, model_type, models_list, model_i, attempt, models_attempted, content,
                   calls, last_outcome, sleeps, slept_after_call, others>>

\* EnterLoop as it would be without the test of line 89.
EnterLoopWithoutKey ==
    /\ spc = "start"
    /\ model_i' = 1
    /\ spc' = "model"
    /\ UNCHANGED <<api_key, model_type, models_list, attempt, models_attempted, content,
                   calls, last_outcome, sleeps, slept_after_call, returned, others>>

\* Lines 92-110: the client is built and the loop over models_list starts.
EnterLoop ==
    /\ spc = "start"
    /\ api_key
    /\ model_i' = 1
    /\ spc' = "model"
    /\ UNCHANGED <<api_key, model_type, models_list, attempt, models_attempted, content,
                   calls, last_outcome, sleeps, slept_after_call, returned, others>>

\* The for loop has no model left: line 159.
ListExhausted ==
    /\ spc = "model"
    /\ model_i > Len(models_list)
    /\ returned' = <<AllFailedSignal>>
    /\ spc' = "done"
    /\ UNCHANGED <<api_key, model_type, models_list, model_i, attempt, models_attempted, content,
                   calls, last_outcome, sleeps, slept_after_call, others>>

\* "if models_attempted >= max_model_attempts: break", then line 159.
CapReached ==
    /\ spc = "model"
    /\ model_i <= Len(models_list)
    /\ models_attempted >= max_model_attempts
    /\ returned' = <<AllFailedSignal>>
    /\ spc' = "done"
    /\ UNCHANGED <<api_key, model_type, models_list, model_i, attempt, models_attempted, content,
                   calls, last_outcome, sleeps, slept_after_call, others>>

\* "models_attempted += 1" and the inner loop starts.
StartModel ==
    /\ spc = "model"
    /\ model_i <= Len(models_list)
    /\ models_attempted < max_model_attempts
    /\ models_attempted' = models_attempted + 1
    /\ attempt' = 0
    /\ spc' = IF 0 < max_retries THEN "attempt" ELSE "after"
    /\ UNCHANGED <<api_key, model_type, models_list, model_i, content,
                   calls, last_outcome, sleeps, slept_after_call, returned, others>>

\* A network call is made to the model of the outer loop.
Called == Append(calls, models_list[model_i])

\* AfterAttempt as it would be if the inner loop ran once more.
AfterAttemptOneMore == IF attempt + 1 < max_retries + 1 THEN "attempt" ELSE "after"

\* Where the inner loop goes after an attempt that neither returned nor broke.
AfterAttempt == IF attempt + 1 < max_retries THEN "attempt" ELSE "after"

\* CallReturnsText as it would be without the return of line 137.
CallReturnsTextAndGoesOn ==
    /\ spc = "attempt"
    /\ \E t \in ModelTexts :
          /\ content' = Text(t)
          /\ last_outcome' = Returned(Text(t))
    /\ calls' = Called
    /\ slept_after_call' = FALSE
    /\ attempt' = attempt + 1
    /\ spc' = AfterAttempt
    /\ UNCHANGED <<api_key, model_type, models_list, model_i, models_attempted, sleeps,
                   returned, others>>

\* "if content: return content.strip()"
CallReturnsText ==
    /\ spc = "attempt"
    /\ \E t \in ModelTexts :
          /\ content' = Text(t)
          /\ last_outcome' = Returned(Text(t))
          /\ returned' = <<strip(t)>>
    /\ calls' = Called
    /\ slept_after_call' = FALSE
    /\ spc' = "done"
    /\ UNCHANGED <<api_key, model_type, models_list, model_i, attempt, models_attempted, sleeps, others>>

\* The call returns an empty or a null content: the inner loop goes on.
CallReturnsNothing ==
    /\ spc = "attempt"
    /\ \E c \in {Text(<<>>), None} :
          /\ content' = c
          /\ last_outcome' = Returned(c)
    /\ calls' = Called
    /\ slept_after_call' = FALSE
    /\ attempt' = attempt + 1
    /\ spc' = AfterAttempt
    /\ UNCHANGED <<api_key, model_type, models_list, model_i, models_attempted, sleeps, returned, others>>

\* "if 'free-models-per-day' in err_str: return 'AI Analysis Unavailable: ...'"
CallHitsDailyLimit ==
    /\ spc = "attempt"
    /\ \E m \in SUBSET ErrorMarkers :
          /\ ErrorClass(m) = "daily limit"
          /\ last_outcome' = Raised(m)
    /\ calls' = Called
    /\ slept_after_call' = FALSE
    /\ returned' = <<DailyLimitSignal>>
    /\ spc' = "done"
    /\ UNCHANGED <<api_key, model_type, models_list, model_i, attempt, models_attempted, content,
                   sleeps, others>>

\* CallRateLimited as it would be if the retry after a 429 were free of charge.
CallRateLimitedFreeRetry ==
    /\ spc = "attempt"
    /\ \E m \in SUBSET ErrorMarkers :
          /\ ErrorClass(m) = "rate limit"
          /\ last_outcome' = Raised(m)
    /\ calls' = Called
    /\ sleeps' = sleeps + 1
    /\ slept_after_call' = TRUE
    /\ spc' = "attempt"
    /\ UNCHANGED <<api_key, model_type, models_list, model_i, attempt, models_attempted,
                   content, returned, others>>

\* "if '429' in err_str: time.sleep(5)", and the inner loop goes on.
CallRateLimited ==
    /\ spc = "attempt"
    /\ \E m \in SUBSET ErrorMarkers :
          /\ ErrorClass(m) = "rate limit"
          /\ last_outcome' = Raised(m)
    /\ calls' = Called
    /\ sleeps' = sleeps + 1
    /\ slept_after_call' = TRUE
    /\ attempt' = attempt + 1
    /\ spc' = AfterAttempt
    /\ UNCHANGED <<api_key, model_type, models_list, model_i, models_attempted, content, returned, others>>

\* "else: break": any other exception ends the attempts on this model.
CallFails ==
    /\ spc = "attempt"
    /\ \E m \in SUBSET ErrorMarkers :
          /\ ErrorClass(m) = "other"
          /\ last_outcome' = Raised(m)
    /\ calls' = Called
    /\ slept_after_call' = FALSE
    /\ spc' = "after"
    /\ UNCHANGED <<api_key, model_type, models_list, model_i, attempt, models_attempted, content,
                   sleeps, returned, others>>

\* Line 154, "if 'Unavailable' in locals().get('content', '')": content is
\* unset or empty here, or None, and "in None" raises TypeError.  The test is
\* never true, so the break of line 155 is never taken.
NextModel ==
    /\ spc = "after"
    /\ content.state # "None"
    /\ model_i' = model_i + 1
    /\ spc' = "model"
    /\ UNCHANGED <<api_key, model_type, models_list, attempt, models_attempted, content,
                   calls, last_outcome, sleeps, slept_after_call, returned, others>>

TypeErrorRaised ==
    /\ spc = "after"
    /\ content.state = "None"
    /\ spc' = "raised"
    /\ UNCHANGED <<api_key, model_type, models_list, model_i, attempt, models_attempted, content,
                   calls, last_outcome, sleeps, slept_after_call, returned, others>>

NextSummarize ==
    \/ NoCredential
    \/ EnterLoop
    \/ ListExhausted
    \/ CapReached
    \/ StartModel
    \/ CallReturnsText
    \/ CallReturnsNothing
    \/ CallHitsDailyLimit
    \/ CallRateLimited
    \/ CallFails
    \/ NextModel
    \/ TypeErrorRaised

SpecSummarize == InitSummarize /\ [][NextSummarize]_vars

\* The function is sequential code: a step that can be taken is taken.
SpecSummarizeFair == SpecSummarize /\ WF_vars(NextSummarize)

-----------------------------------------------------------------------------
(* The /api/analyze endpoint of src/src/web/app.py.  A path is a sequence   *)
(* of tokens: the separator "/" and pieces of names; the text of a path is *)
(* the concatenation of its tokens.                                        *)

MaxDepth == 3
MaxRequests == 2

\* The names a request can put between two separators; the fourth one,
\* input_evil, is made of two tokens.
Names == { <<"app">>, <<"input">>, <<"output">>, <<"input", "_evil">>, <<"..">>, <<"a.txt">> }

RECURSIVE JoinParts(_)
JoinParts(parts) ==
    IF parts = <<>> THEN <<>>
    ELSE IF Len(parts) = 1 THEN parts[1]
    ELSE parts[1] \o <<"/">> \o JoinParts(Tail(parts))

\* request.file_path: absolute or relative, of 1..MaxDepth names.
RequestPaths ==
    {(IF a THEN <<"/">> ELSE <<>>) \o JoinParts(p) :
        a \in BOOLEAN, p \in UNION {[1..n -> Names] : n \in 1..MaxDepth}}

\* text.split("/") without the empty pieces
RECURSIVE Components(_, _)
Components(text, open) ==
    IF text = <<>> THEN (IF open = <<>> THEN <<>> ELSE <<open>>)
    ELSE IF Head(text) = "/"
         THEN (IF open = <<>> THEN <<>> ELSE <<open>>) \o Components(Tail(text), <<>>)
         ELSE Components(Tail(text), Append(open, Head(text)))

\* os.path.normpath on the components of an absolute path
RECURSIVE normpath(_, _)
normpath(done, todo) ==
    IF todo = <<>> THEN done
    ELSE IF Head(todo) = <<"..">>
         THEN normpath(IF done = <<>> THEN <<>> ELSE SubSeq(done, 1, Len(done) - 1), Tail(todo))
         ELSE normpath(Append(done, Head(todo)), Tail(todo))

\* config.py: BASE_DIR is absolute; the server runs with BASE_DIR as its
\* working directory.
BASE_DIR == <<"/", "app">>
INPUT_DIR == BASE_DIR \o <<"/", "input">>
OUTPUT_DIR == BASE_DIR \o <<"/", "output">>
getcwd == BASE_DIR

\* os.path.abspath(path): normpath(join(os.getcwd(), path))
abspath(path) ==
    LET full == IF path # <<>> /\ path[1] = "/" THEN path ELSE getcwd \o <<"/">> \o path
    IN <<"/">> \o JoinParts(normpath(<<>>, Components(full, <<>>)))

\* os.path.basename(path)
basename(path) ==
    IF path = <<>> \/ path[Len(path)] = "/" THEN <<>>
    ELSE LET c == Components(path, <<>>) IN c[Len(c)]

\* str.startswith
startswith(text, prefix) ==
    Len(prefix) <= Len(text) /\ SubSeq(text, 1, Len(prefix)) = prefix

\* is_safe_path(path, allowed_dirs)
is_safe_path(path, allowed_dirs) ==
    \E k \in DOMAIN allowed_dirs : startswith(abspath(path), abspath(allowed_dirs[k]))

InitWeb ==
    /\ ParseIdle
    /\ ValidateIdle
    /\ InsightsIdle
    /\ SummarizeIdle
    /\ JOBS = <<>>
    /\ background_tasks = <<>>
    /\ replies = <<>>

\* trigger_analysis: "if not is_safe_path(...): return {'status': 'error', ...}"
AccessDenied(file_path) ==
    /\ Len(replies) < MaxRequests
    /\ ~is_safe_path(file_path, <<INPUT_DIR, OUTPUT_DIR>>)
    /\ replies' = Append(replies, "error")
    /\ UNCHANGED <<JOBS, background_tasks, parseVars, validateVars, insightVars,
                   summarizeVars>>

\* trigger_analysis: the job is created and the background task is added.
AnalysisStarted(file_path) ==
    /\ Len(replies) < MaxRequests
    /\ is_safe_path(file_path, <<INPUT_DIR, OUTPUT_DIR>>)
    /\ JOBS' = Append(JOBS, [file_name |-> basename(file_path), status |-> "pending"])
    /\ background_tasks' = Append(background_tasks, file_path)
    /\ replies' = Append(replies, "success")
    /\ UNCHANGED <<parseVars, validateVars, insightVars, summarizeVars>>

trigger_analysis == \E file_path \in RequestPaths :
    AccessDenied(file_path) \/ AnalysisStarted(file_path)

NextWeb == trigger_analysis

SpecWeb == InitWeb /\ [][NextWeb]_vars

-----------------------------------------------------------------------------
(* What the claims about the parser speak of, stated on the input file.    *)

\* What each line of the file is: blank, a full or short start line, or a
\* continuation; with the groups of the match for a start line.
Classified ==
    [i \in 1..Len(lines) |->
        LET l == strip(lines[i])
            f == MESSAGE_REGEX_FULL(l)
            sh == MESSAGE_REGEX_SHORT(l)
        IN [kind |-> IF l = <<>> THEN "blank"
                     ELSE IF f.ok THEN "full"
                     ELSE IF sh.ok THEN "short"
                     ELSE "continuation",
            match |-> IF f.ok THEN f ELSE sh,
            stripped |-> l,
            verbatim |-> rstrip(lines[i])]]

StartKinds == {"full", "short"}

\* The start lines of a classified file c.
StartLines(c) == {i \in DOMAIN c : c[i].kind \in StartKinds}

\* The start line's message followed by "\n" and the text of each
\* continuation line up to the next start line, in input order; the text of
\* a line is taken verbatim (only the blanks at its end removed) or stripped
\* (the blanks at both ends removed).
RECURSIVE JoinedBody(_, _, _, _)
JoinedBody(c, acc, j, verbatim) ==
    IF j > Len(c) \/ c[j].kind \in StartKinds THEN acc
    ELSE IF c[j].kind = "continuation"
         THEN JoinedBody(c, acc \o <<"\n">>
                                \o (IF verbatim THEN c[j].verbatim ELSE c[j].stripped),
                         j + 1, verbatim)
         ELSE JoinedBody(c, acc, j + 1, verbatim)

BodyOf(c, i, verbatim) == JoinedBody(c, c[i].match.message, i + 1, verbatim)

\* The start lines whose final message passes the noise filter, in input order.
RECURSIVE KeptStarts(_, _)
KeptStarts(c, i) ==
    IF i > Len(c) THEN <<>>
    ELSE IF c[i].kind \in StartKinds /\ Accepted(BodyOf(c, i, FALSE))
         THEN <<i>> \o KeptStarts(c, i + 1)
         ELSE KeptStarts(c, i + 1)

Parsed == ppc = "done"

\* C1: the parser holds at most one open record; when the input is consumed
\* the Store is exactly the records of the start lines that pass the noise
\* filter, one per start line, in input order, the last one included, with
\* no reordering and no deduplication.
C1_StoreIsKeptStartsInOrder ==
    /\ Len(buffer) <= 1
    /\ Parsed =>
         LET c == Classified
             kept == KeptStarts(c, 1)
         IN /\ Len(rows) = Len(kept)
            /\ \A k \in 1..Len(rows) :
                  /\ rows[k].user = c[kept[k]].match.user
                  /\ rows[k].message = BodyOf(c, kept[k], FALSE)

\* C1 witness: three start lines, the first one noise, the two others
\* identical and both stored, the last of them flushed at end of input.
C1_Witness ==
    /\ Parsed
    /\ Len(lines) = 3
    /\ StartLines(Classified) = {1, 2, 3}
    /\ lines[2] = lines[3]
    /\ Len(rows) = 2
    /\ rows[1] = rows[2]

\* C2 (as stated): every continuation line is present verbatim in the final
\* body of its message, joined by a newline in input order, for every stored
\* record; and the Store never holds more records than there are start lines.
C2_ContinuationsVerbatim ==
    Parsed =>
      LET c == Classified
          kept == KeptStarts(c, 1)
      IN /\ Len(rows) <= Cardinality(StartLines(c))
         /\ Len(rows) = Len(kept)
         /\ \A k \in 1..Len(rows) : rows[k].message = BodyOf(c, kept[k], TRUE)

\* C2 (amended): every continuation line, with the blanks at both of its
\* ends removed, is present in the final body of its message, joined by a
\* newline in input order, for every stored record; and the Store never
\* holds more records than there are start lines.
C2_ContinuationsStripped ==
    LET c == Classified IN
    /\ Len(rows) <= Cardinality(StartLines(c))
    /\ Parsed =>
         LET kept == KeptStarts(c, 1) IN
         /\ Len(rows) = Len(kept)
         /\ \A k \in 1..Len(rows) : rows[k].message = BodyOf(c, kept[k], FALSE)

\* C2 witness: a stored record made of a start line and two continuation
\* lines, one of them indented.
C2_Witness ==
    /\ Parsed
    /\ Len(lines) = 3
    /\ lines[2] = <<" ", "more">>
    /\ lines[3] = <<"bye", "**">>
    /\ Len(rows) = 1
    /\ rows[1].message = <<"hi", "\n", "more", "\n", "bye", "**">>

\* The noise the claim names: a body that begins with '!' or '/', or a body
\* wrapped in '**' markers.
BeginsWithCommandPrefix(m) == m # <<>> /\ m[1] \in {"!", "/"}
WrappedInBold(m) == Len(m) >= 3 /\ m[1] = "**" /\ m[Len(m)] = "**"
NamedNoise(m) == BeginsWithCommandPrefix(m) \/ WrappedInBold(m)

\* C3: after parsing, the Store holds no record whose body begins with '!'
\* or '/' and none whose body is wrapped in '**'; its size is the number of
\* message records minus the number of such noise records.
C3_NoNoiseInStore ==
    Parsed =>
      LET c == Classified IN
      /\ \A k \in 1..Len(rows) : ~NamedNoise(rows[k].message)
      /\ Len(rows) = Cardinality(StartLines(c))
                       - Cardinality({i \in StartLines(c) : NamedNoise(BodyOf(c, i, FALSE))})

\* The full-timestamp lines before line i, and those strptime accepts.
FullBefore(c, i) == {j \in 1..(i - 1) : c[j].kind = "full"}
ParsedFullBefore(c, i) == {j \in FullBefore(c, i) : strptime_full(c[j].match.ts_str).ok}

\* The loop has just consumed a short start line and opened its record.
IsShortStart(i) ==
    /\ ~MESSAGE_REGEX_FULL(strip(lines[i])).ok
    /\ MESSAGE_REGEX_SHORT(strip(lines[i])).ok

JustOpenedByShort == ppc = "loop" /\ idx >= 1 /\ IsShortStart(idx)

\* C4 (as stated): a short-timestamp start line before any full-timestamp
\* line yields a null timestamp; after one, it yields the date of the most
\* recent full-timestamp line before it and the time of day on the short line.
C4_ShortTakesDateOfLastFull ==
    JustOpenedByShort =>
      LET c == Classified
          t == ShortDigits(c[idx].match.ts_str)
      IN IF FullBefore(c, idx) = {}
         THEN buffer[1].timestamp = NoTs
         ELSE LET g == FullDigits(c[Max(FullBefore(c, idx))].match.ts_str) IN
              buffer[1].timestamp = Ts(g[3], g[2], g[1], t[1], t[2])

\* C4 (amended): a short-timestamp start line yields a null timestamp when no
\* successfully parsed full-timestamp line precedes it or when its own text
\* is not a valid time of day; otherwise it yields the date of the most
\* recent successfully parsed full-timestamp line before it and the time of
\* day on the short line.
C4_ShortTakesDateOfLastParsedFull ==
    JustOpenedByShort =>
      LET c == Classified
          t == ShortDigits(c[idx].match.ts_str)
      IN IF ParsedFullBefore(c, idx) = {} \/ ~ValidTime(t[1], t[2])
         THEN buffer[1].timestamp = NoTs
         ELSE LET g == FullDigits(c[Max(ParsedFullBefore(c, idx))].match.ts_str) IN
              buffer[1].timestamp = Ts(g[3], g[2], g[1], t[1], t[2])

\* C4 witness: a valid full line, then a full line strptime rejects, then a
\* short line, which gets the date of the first line.
C4_Witness ==
    /\ JustOpenedByShort
    /\ idx = 3
    /\ FullBefore(Classified, 3) = {1, 2}
    /\ ParsedFullBefore(Classified, 3) = {1}
    /\ buffer[1].timestamp = Ts(2025, 1, 1, 10, 10)

-----------------------------------------------------------------------------
(* What the claims about segmentation and sampling speak of.               *)

\* The periods are known once the segmentation has run.
Segmented == gpc \in {"period", "call", "check", "done"}

\* No year filter and no quarter filter: the mode covers every timestamp.
CoversFullRange == year = 0 /\ target_quarter = 0

\* The emitted periods that row i belongs to.
PeriodsOf(i) == {g \in 1..Len(sorted_groups) : i \in Range(sorted_groups[g].members)}

\* C5 (as stated): with no year or quarter filter, every record of the Store
\* belongs to exactly one emitted period.
C5_EveryRecordInOnePeriod ==
    (Segmented /\ CoversFullRange) =>
        \A i \in 1..Len(df) : Cardinality(PeriodsOf(i)) = 1

\* C5 (amended): with no year or quarter filter, every record of the Store
\* that has a timestamp belongs to exactly one emitted period, and no record
\* belongs to two periods.
C5_EveryDatedRecordInOnePeriod ==
    (Segmented /\ CoversFullRange) =>
        \A i \in 1..Len(df) :
            /\ ~df[i].null => Cardinality(PeriodsOf(i)) = 1
            /\ Cardinality(PeriodsOf(i)) <= 1

\* C5 witness: quarters of two years are emitted, and the Store holds a
\* record without timestamp that is in neither.
C5_Witness ==
    /\ Segmented /\ CoversFullRange /\ ~force_single_period
    /\ Len(sorted_groups) = 2
    /\ sorted_groups[1].key = <<2024, 1>>
    /\ sorted_groups[2].key = <<2025, 1>>
    /\ \E i \in 1..Len(df) : df[i].null /\ PeriodsOf(i) = {}

\* The rows are ready for serialization.
ReadyToSerialize == gpc = "call"

\* C6: for a period with more records than the cap, the records handed to
\* serialization are in non-decreasing timestamp order.
C6_SampleIsChronological ==
    (ReadyToSerialize /\ ExceedsLimit(CurrentGroup.members)) =>
        \A i, j \in 1..Len(msgs_to_process) :
            (i < j /\ ~df[msgs_to_process[i]].null /\ ~df[msgs_to_process[j]].null)
                => TsKey(df[msgs_to_process[i]]) <= TsKey(df[msgs_to_process[j]])

\* C6 witness: a period over the cap whose sample holds two records that
\* stand in the Store in the opposite order of their timestamps.
C6_Witness ==
    /\ ReadyToSerialize
    /\ ExceedsLimit(CurrentGroup.members)
    /\ ~force_single_period
    /\ msgs_to_process[1] > msgs_to_process[2]
    /\ TsKey(df[msgs_to_process[1]]) < TsKey(df[msgs_to_process[2]])

\* C7: the number of records serialized is min(n, cap), n being the period's
\* record count: above the cap, exactly cap distinct records of the period;
\* at or below the cap, all the period's records, unchanged, in Store order.
C7_SerializedCountIsMinOfCap ==
    ReadyToSerialize =>
        LET members == CurrentGroup.members
            n == Len(members)
        IN /\ Len(msgs_to_process) = (IF n > limit_msgs THEN limit_msgs ELSE n)
           /\ Range(msgs_to_process) \subseteq Range(members)
           /\ Cardinality(Range(msgs_to_process)) = Len(msgs_to_process)
           /\ n <= limit_msgs =>
                 /\ msgs_to_process = members
                 /\ \A i, j \in 1..n : i < j => msgs_to_process[i] < msgs_to_process[j]

\* C7 witness: a period with exactly cap records, which stand in the Store
\* in decreasing timestamp order and pass through in that order.
C7_Witness ==
    /\ ReadyToSerialize
    /\ Len(CurrentGroup.members) = limit_msgs
    /\ msgs_to_process = CurrentGroup.members
    /\ ~df[msgs_to_process[1]].null /\ ~df[msgs_to_process[2]].null
    /\ TsKey(df[msgs_to_process[1]]) > TsKey(df[msgs_to_process[2]])

-----------------------------------------------------------------------------
(* What the claims about the response validation speak of.                 *)

Validated == vpc = "done"

\* C8: the validation step is total: whatever the raw response, it stores,
\* without raising, a mapping: the parsed JSON object or the default record.
C8_ValidateYieldsMapping ==
    Validated => Len(data) = 1 /\ data[1].type = "dict"

\* The text of a JSON object, and the object it denotes.
IsObjectText(t) ==
    /\ Len(t) >= 2
    /\ t[1] = "{"
    /\ t[Len(t)] = "}"
    /\ SelectSeq(t, LAMBDA x : x \notin Whitespace) \in {<<"{", "}">>, <<"{", "members", "}">>}

ObjectOf(t) == JsonObject(SelectSeq(t, LAMBDA x : x = "members"))

\* The places <<i, j>> where the response holds the text of a JSON object.
ObjectsIn(resp) ==
    {p \in (1..Len(resp)) \X (1..Len(resp)) :
        p[1] <= p[2] /\ IsObjectText(SubSeq(resp, p[1], p[2]))}

LeadingText(resp, p) == SubSeq(resp, 1, p[1] - 1)
TrailingText(resp, p) == SubSeq(resp, p[2] + 1, Len(resp))

-----------------------------------------------------------------------------
(* What the claims about summarize_text speak of.                          *)

\* The most recent network call failed with the daily quota signal.
LastCallHitDailyLimit ==
    last_outcome.kind = "raised" /\ "free-models-per-day" \in last_outcome.markers

\* C10: as soon as an attempt fails with the daily quota signal, the call
\* returns the Unavailable signal and makes no further network call (and no
\* sleep), whatever the attempt and the model, also when the error text
\* carries the 429 marker as well.
C10_DailyLimitEndsTheCall ==
    LastCallHitDailyLimit =>
        /\ spc = "done"
        /\ returned = <<DailyLimitSignal>>
        /\ HasUnavailable(returned[1])
        /\ ~slept_after_call

\* C10 witness: the second attempt on the second model fails with an error
\* text that carries both markers.
C10_Witness ==
    /\ LastCallHitDailyLimit
    /\ "429" \in last_outcome.markers
    /\ calls = <<1, 1, 2, 2>>
    /\ spc = "done"

\* The model of the most recent network call, and the number of calls made
\* to a model in a sequence of calls.
LastCall == calls[Len(calls)]
AttemptsIn(c, m) == Cardinality({k \in DOMAIN c : c[k] = m})

\* The model that follows m in models_list.
PositionOf(m) == CHOOSE k \in DOMAIN models_list : models_list[k] = m
ModelAfter(m) == models_list[PositionOf(m) + 1]

\* The most recent network call failed with the rate-limit signal.
LastCallRateLimited ==
    /\ last_outcome.kind = "raised"
    /\ "429" \in last_outcome.markers
    /\ "free-models-per-day" \notin last_outcome.markers

\* This step makes a network call.
ACallIsMade == Len(calls') = Len(calls) + 1

Ended == spc \in {"done", "raised"}

\* C11 (as stated): every attempt that fails with the rate-limit signal is
\* followed by one backoff sleep and then by a retry of the same model: the
\* call does not end and no other model is called before that retry.
C11_RateLimitThenRetrySameModel ==
    [][ /\ (ACallIsMade /\ LastCallRateLimited') => sleeps' = sleeps + 1
        /\ (LastCallRateLimited /\ ~Ended) =>
              /\ ~Ended'
              /\ ACallIsMade => calls'[Len(calls')] = LastCall ]_vars

\* C11 (amended): every attempt that fails with the rate-limit signal is
\* followed by one backoff sleep and uses up one of the model's 2 attempts;
\* after the model's first attempt the next step is a retry of the same
\* model, and after its second attempt there is no retry: the next network
\* call, if any, goes to the next model of the list.
C11_RateLimitThenRetryWithinBudget ==
    [][ /\ (ACallIsMade /\ LastCallRateLimited') =>
              /\ sleeps' = sleeps + 1
              /\ attempt' = attempt + 1
              /\ AttemptsIn(calls', calls'[Len(calls')]) <= 2
        /\ (LastCallRateLimited /\ ~Ended /\ AttemptsIn(calls, LastCall) < 2) =>
              /\ ACallIsMade
              /\ calls'[Len(calls')] = LastCall
        /\ (LastCallRateLimited /\ AttemptsIn(calls, LastCall) = 2 /\ ACallIsMade) =>
              calls'[Len(calls')] = ModelAfter(LastCall) ]_vars

\* C11 witness: both attempts on the first model were rate limited, the call
\* slept twice and is about to call the second model.
C11_Witness ==
    /\ LastCallRateLimited
    /\ calls = <<1, 1>>
    /\ sleeps = 2
    /\ spc = "attempt"
    /\ model_i = 2

\* The most recent network call failed with an error that carries neither
\* the quota marker nor the rate-limit marker.
LastCallFailedOther ==
    /\ last_outcome.kind = "raised"
    /\ last_outcome.markers \cap {"free-models-per-day", "429"} = {}

\* C12: an attempt that fails with an error that is neither the quota signal
\* nor the rate-limit signal ends the attempts on that model: no sleep follows
\* it, and the next network call, if any, goes to the next model of the list.
C12_OtherErrorMovesToNextModel ==
    [][ LastCallFailedOther =>
          /\ ~slept_after_call
          /\ ACallIsMade =>
                /\ calls'[Len(calls')] # LastCall
                /\ calls'[Len(calls')] = ModelAfter(LastCall) ]_vars

\* C12 witness: the first attempt on the first model failed with another
\* error; the second attempt was given up and the call is about to call the
\* second model, without having slept.
C12_Witness ==
    /\ LastCallFailedOther
    /\ calls = <<1>>
    /\ sleeps = 0
    /\ spc = "attempt"
    /\ model_i = 2

\* The most recent network call returned a non-empty response body.
LastCallReturnedText ==
    /\ last_outcome.kind = "returned"
    /\ last_outcome.content.state = "str"
    /\ last_outcome.content.text # <<>>

\* C13: the first attempt that returns a non-empty response body ends the
\* operation: the value returned is that body without the blanks at its
\* ends, and no network call is made to any model afterwards.
C13_FirstTextEndsTheCall ==
    /\ [](LastCallReturnedText =>
            /\ spc = "done"
            /\ returned = <<strip(last_outcome.content.text)>>)
    /\ [][LastCallReturnedText => calls' = calls]_vars

\* C13 witness: the third network call, the first one on the second model,
\* returned a body with a newline at both ends; the call returned the word
\* between them.
C13_Witness ==
    /\ LastCallReturnedText
    /\ calls = <<1, 1, 2>>
    /\ last_outcome.content.text = <<"\n", "Sorry", "\n">>
    /\ returned = << <<"Sorry">> >>
    /\ spc = "done"

\* The models called so far are the first ones of the list, called in list order.
CalledInListOrder ==
    /\ \A i, j \in DOMAIN calls : i < j => PositionOf(calls[i]) <= PositionOf(calls[j])
    /\ \E n \in 0..Len(models_list) : Range(calls) = {models_list[k] : k \in 1..n}

\* C14: whatever the candidate list and the outcomes of the attempts, the
\* call reaches at most 5 distinct models, in list order, with at most 2
\* attempts on each, so at most 10 network calls, and it always ends; a
\* pinned model identifier gives a list of exactly one model.
C14_AtMostFiveModelsTwoAttempts ==
    /\ [](/\ Cardinality(Range(calls)) <= 5
          /\ \A m \in Range(calls) : AttemptsIn(calls, m) <= 2
          /\ Len(calls) <= 10
          /\ CalledInListOrder
          /\ (model_type = "pinned" /\ spc # "idle") => Len(models_list) = 1)
    /\ <>Ended

\* C14 witness: a list of six models; two attempts failed on each of the
\* first five, the sixth was never called, and the call has ended.
C14_Witness ==
    /\ Len(models_list) = 6
    /\ calls = <<1, 1, 2, 2, 3, 3, 4, 4, 5, 5>>
    /\ returned = <<AllFailedSignal>>
    /\ spc = "done"

\* Every model of the capped list has been tried, none with a success and
\* none with the quota signal, and the call is over.
CappedList == {models_list[k] : k \in 1..Min({Len(models_list), 5})}

AllTriedInVain ==
    /\ api_key
    /\ Ended
    /\ Range(calls) = CappedList
    /\ ~LastCallReturnedText
    /\ ~LastCallHitDailyLimit

\* C15: when every model of the capped list has been tried without a success
\* and without the quota signal, the call returns the generic failure signal,
\* and the test of the driver ("Unavailable" in response) tells that signal
\* from the two Unavailable signals.
C15_AllTriedReturnsGenericFailure ==
    AllTriedInVain =>
        /\ spc = "done"
        /\ returned = <<AllFailedSignal>>
        /\ ~HasUnavailable(AllFailedSignal)
        /\ HasUnavailable(NoKeySignal)
        /\ HasUnavailable(DailyLimitSignal)

\* C16: when no credential is available the call returns the no-credential
\* Unavailable signal before the loop over the models begins: it makes no
\* network call and no sleep, whatever the model selection.
C16_NoCredentialNoCall ==
    ~api_key =>
        /\ calls = <<>>
        /\ sleeps = 0
        /\ model_i = 0
        /\ spc \in {"idle", "start", "done"}
        /\ spc = "done" => /\ returned = <<NoKeySignal>>
                           /\ HasUnavailable(returned[1])

\* C16 witness: a call without a credential, for a pinned model, has returned.
C16_Witness ==
    /\ ~api_key
    /\ model_type = "pinned"
    /\ models_list = <<1>>
    /\ returned = <<NoKeySignal>>
    /\ spc = "done"

\* C17: the call never raises: whatever the outcomes of the attempts, it ends
\* by returning the text of a model, one of the two Unavailable signals, or
\* the generic failure signal.
C17_NeverRaises ==
    /\ spc # "raised"
    /\ spc = "done" =>
          \/ returned \in {<<NoKeySignal>>, <<DailyLimitSignal>>, <<AllFailedSignal>>}
          \/ /\ LastCallReturnedText
             /\ returned = <<strip(last_outcome.content.text)>>

-----------------------------------------------------------------------------
(* What the claims about the loop over the periods speak of.               *)

\* The labels of the periods, in the chronological order of sorted_groups.
PeriodLabels == [k \in 1..Len(sorted_groups) |-> QuarterLabel(sorted_groups[k].key)]

\* The keys of the map, in insertion order.
InsightKeys == [k \in 1..Len(insights) |-> insights[k].label]

\* The periods summarize_text has been called for, in the order of the calls.
SummarizedPeriods ==
    LET calls_only == SelectSeq(events, LAMBDA e : e.op = "summarize_text")
    IN [k \in 1..Len(calls_only) |-> calls_only[k].period]

IsPrefix(a, b) == Len(a) <= Len(b) /\ \A k \in 1..Len(a) : a[k] = b[k]

\* summarize_text has returned one of its two Unavailable signals.
ReceivedUnavailable ==
    gpc # "idle" /\ response \in {NoKeySignal, DailyLimitSignal}

\* C18: when summarize_text returns an Unavailable signal for the k-th
\* period, the loop ends: no later period is summarized, nothing is recorded
\* for period k, and the map holds exactly the entries of periods 1..k-1;
\* the keys of the map are at all times a prefix of the chronological
\* sequence of period labels.
C18_UnavailableStopsTheRun ==
    /\ [](IsPrefix(InsightKeys, PeriodLabels))
    /\ [](ReceivedUnavailable =>
            /\ gpc \in {"check", "done"}
            /\ SummarizedPeriods = [k \in 1..(gi + 1) |-> k]
            /\ Len(insights) = gi)
    /\ [][ReceivedUnavailable => UNCHANGED <<events, insights, gi>>]_vars

\* C18 witness: three periods; the first was recorded, the second got the
\* daily-limit signal, and the run is over with one entry in the map.
C18_Witness ==
    /\ Len(sorted_groups) = 3
    /\ response = DailyLimitSignal
    /\ gpc = "done"
    /\ gi = 1
    /\ InsightKeys = <<PeriodLabels[1]>>
    /\ SummarizedPeriods = <<1, 2>>

\* C19: the periods are processed one at a time, in the order of
\* sorted_groups, and a pacing delay elapses between the summarize_text call
\* of one period and the call of the next: every call but the first comes
\* right after a sleep.
C19_PacingDelayBetweenCalls ==
    /\ SummarizedPeriods \in {[k \in 1..n |-> k] : n \in 0..Len(sorted_groups)}
    /\ \A i \in DOMAIN events :
          events[i].op = "summarize_text" =>
              /\ i > 1 => events[i - 1] = Sleep
              /\ i = 1 => events[i].period = 1

\* C19 witness: summarize_text has just been called for the third period,
\* after two calls that were each followed by the pacing delay.
C19_Witness ==
    /\ gpc = "check"
    /\ events = <<SummarizeCall(1), Sleep, SummarizeCall(2), Sleep, SummarizeCall(3)>>

\* The period at position i comes before the period at position j in time.
Earlier(i, j) ==
    \/ sorted_groups[i].key[1] < sorted_groups[j].key[1]
    \/ /\ sorted_groups[i].key[1] = sorted_groups[j].key[1]
       /\ sorted_groups[i].key[2] < sorted_groups[j].key[2]

\* C20: the periods the loop goes through are in strictly ascending
\* (year, quarter) order, each of them has at least one record, and the
\* entries of the map are inserted in that same order, one per period gone
\* through, under labels that differ from one another.
C20_PeriodsAscendingAndNonEmpty ==
    /\ \A i, j \in DOMAIN sorted_groups : i < j => Earlier(i, j)
    /\ \A i \in DOMAIN sorted_groups : Len(sorted_groups[i].members) >= 1
    /\ \A i, j \in DOMAIN sorted_groups : i # j => PeriodLabels[i] # PeriodLabels[j]
    /\ InsightKeys = [k \in 1..gi |-> PeriodLabels[k]]

\* C20 witness: a Store with rows in Q1 2024, Q1 2025 and Q2 2025, given in
\* another order; the three periods were gone through and recorded in
\* chronological order.
C20_Witness ==
    /\ gpc = "done"
    /\ Len(df) = 3
    /\ df[1] = Ts(2025, 5, 1, 8, 0)
    /\ [k \in 1..Len(sorted_groups) |-> sorted_groups[k].key]
         = << <<2024, 1>>, <<2025, 1>>, <<2025, 2>> >>
    /\ Len(insights) = 3
    /\ InsightKeys = PeriodLabels

\* The years of the rows that are in some period.
YearsInPeriods ==
    UNION {{YearOf(df[i]) : i \in Range(sorted_groups[k].members)} :
              k \in DOMAIN sorted_groups}

LabelsDistinct ==
    \A i, j \in DOMAIN sorted_groups : i # j => PeriodLabels[i] # PeriodLabels[j]

\* Every step that changes the map appends one entry to it.
AppendOnly ==
    [][insights' # insights =>
          /\ Len(insights') = Len(insights) + 1
          /\ IsPrefix(insights, insights')]_vars

\* C21 (as stated): the labels of the periods of a run are pairwise distinct
\* and the map is append-only; when no target year is given every label
\* carries the year, and the label without the year is used only when a
\* target year restricts the records to one year.
C21_LabelsDistinctYearPrefixed ==
    /\ [](LabelsDistinct)
    /\ AppendOnly
    /\ [](\A k \in DOMAIN sorted_groups :
            /\ year = 0 => PeriodLabels[k].kind = "year and quarter"
            /\ PeriodLabels[k].kind = "quarter" => (year # 0 /\ YearsInPeriods = {year}))

\* C21 (amended): the labels of the periods of a run are pairwise distinct
\* and the map is append-only; in a run segmented by quarter, when no target
\* year is given every label carries the year, and the label without the
\* year is used only when a target year restricts the records to one year;
\* a single-period run has one period, whose label carries neither a year
\* nor a quarter.
C21_LabelsDistinctYearPrefixedByQuarter ==
    /\ [](LabelsDistinct)
    /\ AppendOnly
    /\ [](\A k \in DOMAIN sorted_groups :
            IF force_single_period
            THEN Len(sorted_groups) = 1 /\ PeriodLabels[k].kind = "single period"
            ELSE /\ PeriodLabels[k].kind \in {"year and quarter", "quarter"}
                 /\ year = 0 => /\ PeriodLabels[k].kind = "year and quarter"
                                /\ PeriodLabels[k].y = sorted_groups[k].key[1]
                                /\ PeriodLabels[k].q = sorted_groups[k].key[2]
                 /\ PeriodLabels[k].kind = "quarter" =>
                        (year # 0 /\ YearsInPeriods = {year}))

\* C21 witness: no target year; the first quarters of 2024 and of 2025 are
\* both recorded, under labels that differ by the year only.
C21_Witness ==
    /\ gpc = "done"
    /\ year = 0
    /\ ~force_single_period
    /\ InsightKeys = <<Label("year and quarter", 2024, 1), Label("year and quarter", 2025, 1)>>

\* The rows of the Store that have a timestamp in quarter q of year y.
RowsIn(y, q) ==
    {i \in 1..Len(df) : ~df[i].null /\ df[i].year = y
                         /\ ((df[i].month - 1) \div 3) + 1 = q}

\* A run segmented by quarter, restricted to one quarter, with no target year.
OneQuarterOfEveryYear ==
    /\ gpc \in {"period", "call", "check", "done", "raised"}
    /\ ~force_single_period
    /\ target_quarter # 0
    /\ year = 0

\* C22: with a target_quarter filter and no target year, there is one period
\* per year that has records in that quarter, holding exactly the records of
\* that quarter of that year, and no period for any other quarter.
C22_QuarterFilterKeepsYearsApart ==
    OneQuarterOfEveryYear =>
        LET years == {y \in {df[i].year : i \in 1..Len(df)} : RowsIn(y, target_quarter) # {}}
        IN /\ Len(sorted_groups) = Cardinality(years)
           /\ {sorted_groups[k].key : k \in DOMAIN sorted_groups}
                 = {<<y, target_quarter>> : y \in years}
           /\ \A k \in DOMAIN sorted_groups :
                 Range(sorted_groups[k].members)
                   = RowsIn(sorted_groups[k].key[1], sorted_groups[k].key[2])

\* C22 witness: the Store has records in Q1 2024, Q1 2025 and Q2 2025; the
\* run for Q1 has two periods, one per year, and none for Q2.
C22_Witness ==
    /\ OneQuarterOfEveryYear
    /\ target_quarter = 1
    /\ Range(df) = {Ts(2024, 2, 10, 9, 0), Ts(2025, 1, 1, 10, 0), Ts(2025, 5, 1, 8, 0)}
    /\ [k \in 1..Len(sorted_groups) |-> sorted_groups[k].key] = << <<2024, 1>>, <<2025, 1>> >>

-----------------------------------------------------------------------------
(* What the claims about the web application speak of.                     *)

\* The resolved path is the directory dir or a descendant of it: the names
\* of dir are the first names of the path.
Inside(path, dir) ==
    IsPrefix(Components(abspath(dir), <<>>), Components(abspath(path), <<>>))

\* C23: is_safe_path accepts a path only when its resolved absolute path is
\* INPUT_DIR or OUTPUT_DIR or a descendant of one of them, so a job and a
\* background task exist only for such a path, and not for a path in a
\* sibling directory whose name starts with the name of an allowed directory.
C23_JobsOnlyInsideAllowedDirs ==
    /\ Len(JOBS) = Len(background_tasks)
    /\ \A k \in DOMAIN background_tasks :
          \/ Inside(background_tasks[k], INPUT_DIR)
          \/ Inside(background_tasks[k], OUTPUT_DIR)

-----------------------------------------------------------------------------
(* What the claim about the segmentation by month speaks of.               *)

\* C24: a segmentation by month exists next to the one by quarter: a caller
\* can import get_monthly_insights from ai_insights and run it, so the import
\* never ends in ImportError.
C24_MonthlySegmentationExists == gpc # "ImportError"

-----------------------------------------------------------------------------
(* What the claims about the frame of the parser's steps speak of.         *)

\* This step of the loop consumes the line at position idx + 1.
ConsumesLine == ppc = "loop" /\ idx' = idx + 1

\* C25: a full-timestamp start line whose date-time fails to parse still
\* opens a record, with a null timestamp, and the loop goes on; it leaves
\* last_full_date unchanged; last_full_date changes only on a full-timestamp
\* line that parses, to the date of that line, and once set it is never None
\* again.
C25_UnparsedFullLineOpensRecord ==
    [][ LET c == Classified IN
        /\ (ConsumesLine /\ c[idx'].kind = "full"
               /\ ~strptime_full(c[idx'].match.ts_str).ok) =>
              /\ buffer' = <<Record(NoTs, c[idx'].match.user, c[idx'].match.message)>>
              /\ last_full_date' = last_full_date
              /\ ppc' = "loop"
        /\ last_full_date' # last_full_date =>
              /\ ConsumesLine
              /\ c[idx'].kind = "full"
              /\ strptime_full(c[idx'].match.ts_str).ok
              /\ last_full_date' = <<DateOf(strptime_full(c[idx'].match.ts_str).ts)>>
        /\ last_full_date # <<>> => last_full_date' # <<>> ]_vars

\* C25 witness: after a full line that parsed, a full line dated 31/02 has
\* opened a record without timestamp and the date of the first line is kept.
C25_Witness ==
    /\ ppc = "loop"
    /\ idx = 2
    /\ lines[1] = FullLine("01/01/2025 10:00", <<"hi">>)
    /\ lines[2] = FullLine("31/02/2025 10:00", <<"hi">>)
    /\ buffer = <<Record(NoTs, <<"Alice">>, <<"hi">>)>>
    /\ last_full_date = <<DateOf(Ts(2025, 1, 1, 10, 0))>>

\* A body holds the trace of a blank line: a newline with nothing after it
\* before the next newline or the end.
HoldsBlankLine(m) ==
    \E k \in DOMAIN m : m[k] = "\n" /\ (k = Len(m) \/ m[k + 1] = "\n")

\* C26: a blank line changes nothing in the parser: the open record and its
\* body, last_full_date and the Store are unchanged by it, a continuation
\* line that follows it is appended to the record that was open before it,
\* and no body holds the blank line.
C26_BlankLineChangesNothing ==
    /\ [][ LET c == Classified IN
            /\ (ConsumesLine /\ c[idx'].kind = "blank") =>
                  UNCHANGED <<buffer, last_full_date, rows, ppc>>
            /\ (ConsumesLine /\ c[idx'].kind = "continuation" /\ buffer # <<>>) =>
                  buffer' = <<[buffer[1] EXCEPT
                                 !.message = @ \o <<"\n">> \o c[idx'].stripped]>> ]_vars
    /\ [](\A r \in Range(rows) \cup Range(buffer) : ~HoldsBlankLine(r.message))

\* C26 witness: a start line, a line of blanks, then a continuation line,
\* which has been appended to the record of the start line.
C26_Witness ==
    /\ ppc = "loop"
    /\ idx = 3
    /\ lines[2] = <<" ">>
    /\ lines[3] = <<" ", "more">>
    /\ buffer = <<Record(Ts(2025, 1, 1, 10, 0), <<"Alice">>, <<"hi", "\n", "more">>)>>
    /\ rows = <<>>

\* The number of newlines in a body, and in the bodies of a sequence of records.
RECURSIVE Newlines(_)
Newlines(m) ==
    IF m = <<>> THEN 0 ELSE (IF Head(m) = "\n" THEN 1 ELSE 0) + Newlines(Tail(m))

RECURSIVE NewlinesOf(_)
NewlinesOf(rs) == IF rs = <<>> THEN 0 ELSE Newlines(rs[1].message) + NewlinesOf(Tail(rs))

\* The continuation lines consumed so far that came after a start line.
AttachedLines(c) ==
    {i \in 1..idx : c[i].kind = "continuation"
                      /\ \E j \in 1..(i - 1) : c[j].kind \in StartKinds}

\* C27: a continuation line that arrives while no record is open, that is
\* before the first start line, is discarded without any error: it opens no
\* record, leaves the Store and last_full_date unchanged, and its text is in
\* no later record; so also for a line that begins with '[' and matches
\* neither timestamp pattern.
C27_OrphanLineIsDiscarded ==
    /\ [][ LET c == Classified IN
            (ConsumesLine /\ c[idx'].kind = "continuation" /\ buffer = <<>>) =>
                UNCHANGED <<buffer, rows, last_full_date, ppc>> ]_vars
    /\ [](LET c == Classified IN
            /\ (buffer = <<>> /\ ppc = "loop") =>
                  \A i \in 1..idx : c[i].kind \notin StartKinds
            /\ NewlinesOf(rows) + (IF ppc = "loop" THEN NewlinesOf(buffer) ELSE 0)
                  <= Cardinality(AttachedLines(c)))

\* C27 witness: a line that begins with '[' and matches neither pattern, then
\* an indented line, both before the first start line; the one record of the
\* file holds the body of its start line only.
C27_Witness ==
    /\ Parsed
    /\ Len(lines) = 3
    /\ lines[1] = <<"[", "hi", "]", " ", "Alice", ":", " ", "hi">>
    /\ lines[2] = <<" ", "more">>
    /\ rows = <<Record(Ts(2025, 4, 2, 11, 30), <<"Alice">>, <<"hi">>)>>

\* The start lines the claim says are rejected: the body begins with '!' or
\* '/', or the body of the start line itself is wrapped in '**'.
RejectedStarts(c) ==
    {i \in StartLines(c) : \/ BeginsWithCommandPrefix(BodyOf(c, i, FALSE))
                           \/ WrappedInBold(c[i].match.message)}

\* The continuation lines that follow start line i, up to the next start line.
FollowersOf(c, i) ==
    {j \in (i + 1)..Len(c) : /\ c[j].kind = "continuation"
                              /\ \A k \in (i + 1)..j : c[k].kind \notin StartKinds}

\* C28: the noise filter is applied once per record, when it is flushed, on
\* the final body: a record whose body begins with '!' or '/' is rejected
\* with all its continuation lines, which go to no other record, and a record
\* whose start-line body is wrapped in '**' is rejected whether or not
\* continuation lines follow it.
C28_NoiseRejectedWithItsLines ==
    Parsed =>
      LET c == Classified
          kept == StartLines(c) \ RejectedStarts(c)
      IN /\ Len(rows) <= Cardinality(kept)
         /\ NewlinesOf(rows) <= Cardinality(UNION {FollowersOf(c, i) : i \in kept})

-----------------------------------------------------------------------------
(* What the claims about the outcomes of summarize_text in the loop speak  *)
(* of.                                                                     *)

UnavailableSignals == {NoKeySignal, DailyLimitSignal}

\* The run has ended before the loop went through every period.
Aborted == gpc = "done" /\ gi < Len(sorted_groups)

\* C29: the run is aborted only when summarize_text ended in one of its two
\* Unavailable outcomes; any other response, whatever its text, is passed to
\* the validation step and recorded under the label of its period, and the
\* run goes on with the next period.
C29_AbortOnlyOnUnavailableSignal ==
    /\ Aborted => response \in UnavailableSignals
    /\ (gpc \in {"period", "done"} /\ response \notin UnavailableSignals) =>
          Len(insights) = Len(SummarizedPeriods)

\* The number of entries the map holds for the period at position k.
EntriesFor(k) == Cardinality({j \in DOMAIN insights : insights[j].label = PeriodLabels[k]})

\* C30: when summarize_text returns the generic failure signal for a period
\* the run is not aborted: the default record (sentiment Unknown, empty
\* summary) is stored under the label of that period and the loop goes to the
\* next period; every period the loop has gone through has exactly one entry
\* in the map.
C30_GenericFailureStoresDefault ==
    /\ [][ (gpc = "check" /\ response = AllFailedSignal) =>
              /\ gpc' = "period"
              /\ gi' = gi + 1
              /\ insights' = Append(insights, [label |-> PeriodLabels[gi + 1],
                                                value |-> DefaultRecord])
              /\ insights'[gi + 1].value.type = "dict"
              /\ {"summary: []", "sentiment: Unknown"}
                    \subseteq Range(insights'[gi + 1].value.content) ]_vars
    /\ [](\A k \in 1..gi : EntriesFor(k) = 1)

\* C30 witness: two periods; the first got the generic failure signal, the
\* default record is stored under its label and the loop is at the second.
C30_Witness ==
    /\ gpc = "period"
    /\ Len(sorted_groups) = 2
    /\ gi = 1
    /\ response = AllFailedSignal
    /\ insights = <<[label |-> PeriodLabels[1], value |-> DefaultRecord]>>

====
